---- MODULE Spec2Model ----
(***************************************************************************)
(* Model of the two patch scripts of the repository:                       *)
(*   src/update_repo.py       reads task-repository.ts, inserts an         *)
(*                            interface declaration and a class method,    *)
(*                            writes the file back, prints a message;      *)
(*   src/update_lifecycle.py  meant to do the same with one patch, but     *)
(*                            the string literal opened by the three       *)
(*                            quotes of line 10 is never closed (line 53   *)
(*                            holds one quote character), so the           *)
(*                            interpreter rejects the file with a          *)
(*                            SyntaxError before any statement runs.       *)
(*                                                                         *)
(* exists tells whether the target file is there; disk is its text.        *)
(* A text is a sequence of tokens.  A token stands for a fragment of a     *)
(* line of the TypeScript file.  The four string constants of              *)
(* update_repo.py are pairwise free of overlaps (no proper suffix of one   *)
(* is a prefix of another or of itself, none contains another), and the    *)
(* token sequences chosen for them keep that structure: the two anchors    *)
(* are one token each, the two insertions two tokens each.                 *)
(***************************************************************************)
EXTENDS Integers, Sequences, FiniteSets, TLC

VARIABLES script, exists, disk, writable, pc, content, err, stdout, runs, snap, log

vars == <<script, exists, disk, writable, pc, content, err, stdout, runs, snap, log>>

(* Bounds of the model. *)
MaxLen == 3
MaxRuns == 2

Scripts == {"update_repo", "update_lifecycle"}

Alphabet == {"doc", "decl", "head", "body", "hdoc", "hsig", "x"}

Texts == UNION {[1..n -> Alphabet] : n \in 0..MaxLen}

(* ---- the string constants of update_repo.py ---- *)
interface_target == <<"hdoc">>

interface_insert == <<"doc", "decl">>

class_target == <<"hsig">>

class_insert == <<"head", "body">>

UpdatedRepoMsg == "Updated task-repository.ts"

(* ---- str operations of Python, on token sequences ---- *)
MatchAt(s, sub, i) ==
    /\ i >= 1
    /\ i + Len(sub) - 1 <= Len(s)
    /\ \A j \in 1..Len(sub) : s[i + j - 1] = sub[j]

(* sub in s *)
Contains(s, sub) == \E i \in 1..(Len(s) + 1) : MatchAt(s, sub, i)

RECURSIVE ReplaceFrom(_, _, _, _)
ReplaceFrom(s, old, new, i) ==
    IF i > Len(s) THEN <<>>
    ELSE IF MatchAt(s, old, i)
         THEN new \o ReplaceFrom(s, old, new, i + Len(old))
         ELSE <<s[i]>> \o ReplaceFrom(s, old, new, i + 1)

(* A variant that puts the new text in front when old does not occur. *)
ReplaceOrPrepend(s, old, new) ==
    IF Contains(s, old) THEN ReplaceFrom(s, old, new, 1) ELSE new \o s

(* s.replace(old, new) with a non-empty old: every non-overlapping *)
(* occurrence of old, scanning from the left, is replaced by new.  *)
Replace(s, old, new) == ReplaceFrom(s, old, new, 1)

(* ---- the two guarded patches of update_repo.py ---- *)
InterfacePatchNoGuard(c) ==
    Replace(c, interface_target, interface_insert \o interface_target)

InterfacePatch(c) ==
    IF ~Contains(c, interface_insert)
    THEN Replace(c, interface_target, interface_insert \o interface_target)
    ELSE c

ClassPatch(c) ==
    IF ~Contains(c, class_insert)
    THEN Replace(c, class_target, class_insert \o class_target)
    ELSE c

(* ---- history ---- *)
(* snap: the values content has held in the current run, oldest first.  *)
(* log:  one record for each run that has ended.                        *)
RunRecord(status, after, printed) ==
    [status |-> status, texts |-> snap, after |-> after, printed |-> printed]

Init ==
    /\ script \in Scripts
    /\ exists \in BOOLEAN
    /\ disk \in (IF exists THEN Texts ELSE {<<>>})
    /\ writable \in BOOLEAN
    /\ pc = "start"
    /\ content = <<>>
    /\ err = "none"
    /\ stdout = <<>>
    /\ runs = 1
    /\ snap = <<>>
    /\ log = <<>>

(* update_lifecycle.py does not compile: no statement of it runs. *)
LifecycleSyntaxError ==
    /\ script = "update_lifecycle"
    /\ pc = "start"
    /\ pc' = "aborted"
    /\ err' = "SyntaxError"
    /\ log' = Append(log, RunRecord("aborted", disk, ""))
    /\ UNCHANGED <<script, exists, disk, writable, content, stdout, runs, snap>>

(* with open(file_path, 'r') as f: content = f.read() *)
ReadFile ==
    /\ script = "update_repo"
    /\ pc = "start"
    /\ IF ~exists
       THEN /\ pc' = "aborted"
            /\ err' = "FileNotFoundError"
            /\ log' = Append(log, RunRecord("aborted", disk, ""))
            /\ UNCHANGED <<content, snap>>
       ELSE /\ pc' = "interface"
            /\ content' = disk
            /\ snap' = <<disk>>
            /\ UNCHANGED <<err, log>>
    /\ UNCHANGED <<script, exists, disk, writable, stdout, runs>>

(* if interface_insert not in content: content = content.replace(...) *)
InterfaceStepStopOnMissing ==
    /\ pc = "interface"
    /\ content' = InterfacePatch(content)
    /\ snap' = Append(snap, content')
    /\ pc' = IF Contains(content, interface_target) \/ Contains(content, interface_insert)
             THEN "class" ELSE "open_w"
    /\ UNCHANGED <<script, exists, disk, writable, err, stdout, runs, log>>

InterfaceStep ==
    /\ pc = "interface"
    /\ content' = InterfacePatch(content)
    /\ snap' = Append(snap, content')
    /\ pc' = "class"
    /\ UNCHANGED <<script, exists, disk, writable, err, stdout, runs, log>>

(* if class_insert not in content: content = content.replace(...) *)
ClassStepOnTextRead ==
    /\ pc = "class"
    /\ content' = ClassPatch(snap[1])
    /\ snap' = Append(snap, content')
    /\ pc' = "open_w"
    /\ UNCHANGED <<script, exists, disk, writable, err, stdout, runs, log>>

ClassStep ==
    /\ pc = "class"
    /\ content' = ClassPatch(content)
    /\ snap' = Append(snap, content')
    /\ pc' = "open_w"
    /\ UNCHANGED <<script, exists, disk, writable, err, stdout, runs, log>>

(* open(file_path, 'w'): mode 'w' truncates the file when it is opened. *)
OpenWrite ==
    /\ pc = "open_w"
    /\ IF writable
       THEN /\ disk' = <<>>
            /\ pc' = "write"
            /\ UNCHANGED <<err, log>>
       ELSE /\ pc' = "aborted"
            /\ err' = "PermissionError"
            /\ log' = Append(log, RunRecord("aborted", disk, ""))
            /\ UNCHANGED disk
    /\ UNCHANGED <<script, exists, writable, content, stdout, runs, snap>>

(* f.write(content) and the close at the end of the with block *)
WriteFile ==
    /\ pc = "write"
    /\ disk' = content
    /\ pc' = "print"
    /\ UNCHANGED <<script, exists, writable, content, err, stdout, runs, snap, log>>

(* The write raises OSError after n tokens reached the file. *)
WriteFails ==
    /\ pc = "write"
    /\ \E n \in 0..(Len(content) - 1) :
          /\ disk' = SubSeq(content, 1, n)
          /\ log' = Append(log, RunRecord("aborted", SubSeq(content, 1, n), ""))
    /\ pc' = "aborted"
    /\ err' = "OSError"
    /\ UNCHANGED <<script, exists, writable, content, stdout, runs, snap>>

(* print("Updated task-repository.ts") *)
PrintUpdated ==
    /\ pc = "print"
    /\ stdout' = Append(stdout, UpdatedRepoMsg)
    /\ pc' = "done"
    /\ log' = Append(log, RunRecord("done", disk, UpdatedRepoMsg))
    /\ UNCHANGED <<script, exists, disk, writable, content, err, runs, snap>>

(* The script is started again on the file the last run left behind. *)
Rerun ==
    /\ pc \in {"done", "aborted"}
    /\ runs < MaxRuns
    /\ runs' = runs + 1
    /\ pc' = "start"
    /\ content' = <<>>
    /\ err' = "none"
    /\ snap' = <<>>
    /\ UNCHANGED <<script, exists, disk, writable, stdout, log>>

Next ==
    \/ LifecycleSyntaxError
    \/ ReadFile
    \/ InterfaceStep
    \/ ClassStep
    \/ OpenWrite
    \/ WriteFile
    \/ WriteFails
    \/ PrintUpdated
    \/ Rerun

Spec == Init /\ [][Next]_vars

TypeOK ==
    /\ script \in Scripts
    /\ pc \in {"start", "interface", "class", "open_w", "write", "print", "done", "aborted"}
    /\ runs \in 1..MaxRuns
    /\ writable \in BOOLEAN
    /\ exists \in BOOLEAN
    /\ ~exists => disk = <<>>

(* ---- the outcome of one patch, as section 3 of the design names it ---- *)
Outcome(c, marker, anchor) ==
    IF Contains(c, marker) THEN "AlreadyApplied"
    ELSE IF Contains(c, anchor) THEN "Applied"
    ELSE "AnchorNotFound"

(* texts: the values of content in one run, the text read first *)
InterfaceOutcome(texts) == Outcome(texts[1], interface_insert, interface_target)

ClassOutcome(texts) == Outcome(texts[2], class_insert, class_target)

Outcomes(texts) == <<InterfaceOutcome(texts), ClassOutcome(texts)>>

Occurrences(s, sub) == Cardinality({i \in 1..Len(s) : MatchAt(s, sub, i)})

FirstIndex(s, sub) ==
    CHOOSE i \in 1..Len(s) :
        MatchAt(s, sub, i) /\ \A j \in 1..(i - 1) : ~MatchAt(s, sub, j)

(* n is t with insertion spliced in right before the first anchor of t *)
SplicedBeforeFirst(t, n, anchor, insertion) ==
    LET p == FirstIndex(t, anchor)
    IN  n = SubSeq(t, 1, p - 1) \o insertion \o anchor
            \o SubSeq(t, p + Len(anchor), Len(t))

(* n holds one insertion more than t, and it stands at the first anchor of t *)
InsertedOnceAtFirst(t, n, anchor, insertion) ==
    /\ Occurrences(n, insertion) = Occurrences(t, insertion) + 1
    /\ Len(n) = Len(t) + Len(insertion)
    /\ MatchAt(n, insertion \o anchor, FirstIndex(t, anchor))

(* C1: idempotence.  When update_repo.py ran to its end and is run again  *)
(* to its end, the second run reads the file the first run left, changes  *)
(* nothing in the text it read (no patch inserts anything) and leaves the *)
(* same file behind; this holds for every pair of consecutive runs.       *)
(* update_lifecycle.py leaves the file as it is in every run.             *)
C1_Idempotence ==
    /\ \A i \in 1..(Len(log) - 1) :
          (log[i].status = "done" /\ log[i + 1].status = "done")
              => /\ log[i + 1].after = log[i].after
                 /\ log[i + 1].texts = <<log[i].after, log[i].after, log[i].after>>
                 /\ "Applied" \notin {InterfaceOutcome(log[i + 1].texts),
                                      ClassOutcome(log[i + 1].texts)}
    /\ script = "update_lifecycle"
          => \A i \in 1..Len(log) : log[i].after = disk /\ log[i].texts = <<>>

C1_Witness ==
    /\ script = "update_repo"
    /\ Len(log) = 2
    /\ log[1].status = "done"
    /\ log[2].status = "done"
    /\ Outcomes(log[1].texts) = <<"Applied", "Applied">>
    /\ Outcomes(log[2].texts) = <<"AlreadyApplied", "AlreadyApplied">>
    /\ log[2].after = log[1].after

(* C2: first occurrence only.  A patch that is applied (marker absent,    *)
(* anchor present) adds exactly one copy of its insertion, in front of    *)
(* the first occurrence of its anchor.                                    *)
C2_FirstOccurrenceOnly ==
    /\ (Len(snap) >= 2 /\ InterfaceOutcome(snap) = "Applied")
          => InsertedOnceAtFirst(snap[1], snap[2], interface_target, interface_insert)
    /\ (Len(snap) >= 3 /\ ClassOutcome(snap) = "Applied")
          => InsertedOnceAtFirst(snap[2], snap[3], class_target, class_insert)

(* C3: placement BEFORE.  The text a patch produces when it is applied is *)
(* prefix + insertion + anchor + suffix, prefix and suffix being the text *)
(* before and after the anchor occurrence in the text it was given.       *)
C3_PlacementBefore ==
    /\ (Len(snap) >= 2 /\ InterfaceOutcome(snap) = "Applied")
          => SplicedBeforeFirst(snap[1], snap[2], interface_target, interface_insert)
    /\ (Len(snap) >= 3 /\ ClassOutcome(snap) = "Applied")
          => SplicedBeforeFirst(snap[2], snap[3], class_target, class_insert)

C5_NoPartialWrite ==
    Len(snap) >= 1 => disk \in {snap[1], ClassPatch(InterfacePatch(snap[1]))}

(* C6: write only when Applied.  The file is opened for writing only in a *)
(* run in which one of the patches was applied.                           *)
C6_WriteOnlyWhenApplied ==
    pc = "write" => "Applied" \in {InterfaceOutcome(snap), ClassOutcome(snap)}

(* C7: run independence.  When the interface patch finds no anchor, the   *)
(* class patch is still attempted, and when it is eligible its insertion  *)
(* stands in front of its anchor in the file the run leaves on disk.      *)
C7_RunIndependence ==
    /\ (pc \in {"open_w", "write", "print", "done"}) => Len(snap) = 3
    /\ ( /\ pc = "done"
         /\ InterfaceOutcome(snap) = "AnchorNotFound"
         /\ ClassOutcome(snap) = "Applied" )
          => /\ Contains(disk, class_insert \o class_target)
             /\ disk /= snap[1]
             /\ disk = content

C7_Witness ==
    /\ pc = "done"
    /\ InterfaceOutcome(snap) = "AnchorNotFound"
    /\ ClassOutcome(snap) = "Applied"
    /\ Contains(disk, class_insert \o class_target)

(* C8: every outcome is a value.  A read or write error on the target     *)
(* file never ends the run as an uncaught exception.                      *)
C8_IOFailureIsAnOutcome ==
    err \notin {"FileNotFoundError", "PermissionError", "OSError"}

(* C9: faithful reports.  Two runs that print the same report had the     *)
(* same outcomes, patch by patch.                                         *)
C9_FaithfulReport ==
    \A i, j \in 1..Len(log) :
        ( /\ log[i].status = "done"
          /\ log[j].status = "done"
          /\ log[i].printed = log[j].printed )
            => Outcomes(log[i].texts) = Outcomes(log[j].texts)

(* C10: sequential application.  The interface patch works on the text    *)
(* read, the class patch on the text the interface patch produced, and    *)
(* the file a finished run leaves holds the effect of both.               *)
C10_SequentialApplication ==
    /\ Len(snap) >= 2 => snap[2] = InterfacePatch(snap[1])
    /\ Len(snap) >= 3 => snap[3] = ClassPatch(snap[2])
    /\ pc = "done" => disk = ClassPatch(InterfacePatch(snap[1]))
    /\ (pc = "done" /\ Outcomes(snap) = <<"Applied", "Applied">>)
          => /\ Contains(disk, interface_insert \o interface_target)
             /\ Contains(disk, class_insert \o class_target)

C10_Witness ==
    /\ pc = "done"
    /\ Outcomes(snap) = <<"Applied", "Applied">>
    /\ snap[2] /= snap[1]
    /\ snap[3] /= snap[2]
    /\ disk = snap[3]
====
